---- MODULE Spec2Model ----
(***************************************************************************)
(* Model of the Simple Agent API (src/app.py): the three SimpleAgent       *)
(* personas, the keyword policy of _get_simulated_response, the optional   *)
(* delegation to the completion service, and the Flask handlers home,      *)
(* ask and list_agents.  Text is modelled as TLA+ strings; lower(),        *)
(* replace(), strip() and the `in` test are computed character by          *)
(* character, as Python computes them.                                     *)
(***************************************************************************)
EXTENDS Integers, Sequences, FiniteSets, TLC

VARIABLES
    USE_OPENAI,     \* module global set at import time (app.py 10-22)
    openai_client,  \* module global: "client", "None" or "undefined"
    agents,         \* the registry dict, in insertion order (app.py 122-126)
    clock,          \* the wall clock datetime.now() reads
    ticks,          \* seconds elapsed since the process started
    reqs,           \* the requests in flight, one record per worker thread
    probe           \* a direct call of SimpleAgent.run_live (no HTTP)

vars == <<USE_OPENAI, openai_client, agents, clock, ticks, reqs, probe>>

-----------------------------------------------------------------------------
(* Bounds *)

\* seconds the clock may advance during a run
MaxTicks == 1

\* number of fragments a probed query is made of
MaxFrags == 2

-----------------------------------------------------------------------------
(* Python str operations *)

CharAt(s, i) == SubSeq(s, i, i)

\* str.lower() on one character (ASCII letters occurring in the inputs)
LowerChar(c) ==
    CASE c = "A" -> "a" [] c = "C" -> "c" [] c = "E" -> "e" [] c = "H" -> "h"
      [] c = "I" -> "i" [] c = "K" -> "k" [] c = "L" -> "l" [] c = "O" -> "o"
      [] c = "P" -> "p" [] c = "R" -> "r" [] c = "S" -> "s" [] c = "T" -> "t"
      [] c = "U" -> "u" [] c = "X" -> "x" [] c = "Y" -> "y"
      [] OTHER -> c

RECURSIVE Lower(_)
Lower(s) ==
    IF Len(s) = 0 THEN ""
    ELSE LowerChar(CharAt(s, 1)) \o Lower(SubSeq(s, 2, Len(s)))

\* `sub in s`
Contains(s, sub) ==
    \E i \in 1..(Len(s) - Len(sub) + 1) : SubSeq(s, i, i + Len(sub) - 1) = sub

\* any(word in s for word in words)
AnyIn(words, s) == \E k \in 1..Len(words) : Contains(s, words[k])

\* s.replace(old, ""): leftmost non-overlapping occurrences, one pass
RECURSIVE Remove(_, _)
Remove(s, old) ==
    IF Len(s) < Len(old) THEN s
    ELSE IF SubSeq(s, 1, Len(old)) = old
         THEN Remove(SubSeq(s, Len(old) + 1, Len(s)), old)
         ELSE CharAt(s, 1) \o Remove(SubSeq(s, 2, Len(s)), old)

IsSpace(c) == c \in {" ", "\t", "\n"}

RECURSIVE LStrip(_)
LStrip(s) ==
    IF Len(s) > 0 /\ IsSpace(CharAt(s, 1)) THEN LStrip(SubSeq(s, 2, Len(s))) ELSE s

RECURSIVE RStrip(_)
RStrip(s) ==
    IF Len(s) > 0 /\ IsSpace(CharAt(s, Len(s)))
    THEN RStrip(SubSeq(s, 1, Len(s) - 1)) ELSE s

\* str.strip()
Strip(s) == RStrip(LStrip(s))

StartsWith(s, p) == Len(s) >= Len(p) /\ SubSeq(s, 1, Len(p)) = p

-----------------------------------------------------------------------------
(* datetime formatting *)

Digit(d) == SubSeq("0123456789", d + 1, d + 1)

Pad2(n) == Digit((n \div 10) % 10) \o Digit(n % 10)

Pad4(n) == Pad2(n \div 100) \o Pad2(n % 100)

\* strftime('%H:%M:%S')
FormatHMS(now) ==
    Pad2(now.secs \div 3600) \o ":" \o Pad2((now.secs \div 60) % 60)
        \o ":" \o Pad2(now.secs % 60)

\* strftime('%Y-%m-%d %H:%M:%S')
FormatYMDHMS(now) ==
    Pad4(now.year) \o "-" \o Pad2(now.month) \o "-" \o Pad2(now.day)
        \o " " \o FormatHMS(now)

\* datetime.isoformat(), to the second
IsoFormat(now) ==
    Pad4(now.year) \o "-" \o Pad2(now.month) \o "-" \o Pad2(now.day)
        \o "T" \o FormatHMS(now)

get_current_time(now) == "The current time is " \o FormatYMDHMS(now)

perform_task(task, now) ==
    "Task completed: " \o task \o ". Status: Success at " \o FormatHMS(now)

-----------------------------------------------------------------------------
(* JSON values as the handler sees them after request.json *)

JStr(s) == [t |-> "str", s |-> s, n |-> 0]
JNum(n) == [t |-> "int", s |-> "", n |-> n]
JList(n) == [t |-> "list", s |-> "", n |-> n]   \* a list of n elements
JNull == [t |-> "NoneType", s |-> "", n |-> 0]
Absent == [t |-> "absent", s |-> "", n |-> 0]   \* the key is not in the body

\* Python truthiness: `not v` is the negation
Truthy(v) ==
    CASE v.t = "str" -> Len(v.s) > 0
      [] v.t = "int" -> v.n # 0
      [] v.t = "list" -> v.n > 0
      [] OTHER -> FALSE

\* dict keys must be hashable: `x in agents` raises TypeError for a list
Hashable(v) == v.t # "list"

\* str(v) inside an f-string
PyStr(v) ==
    CASE v.t = "str" -> v.s
      [] v.t = "int" -> IF v.n < 10 THEN Digit(v.n) ELSE Pad2(v.n)
      [] v.t = "NoneType" -> "None"
      [] OTHER -> "[...]"

-----------------------------------------------------------------------------
(* The agents (app.py 104-126) *)

greeter ==
    [name |-> "greeter",
     description |-> "I specialize in greeting users and making them feel welcome.",
     tools |-> <<>>,
     sub_agents |-> <<>>]

task_executor ==
    [name |-> "task_executor",
     description |-> "I specialize in executing tasks and getting things done.",
     tools |-> <<"perform_task", "get_current_time">>,
     sub_agents |-> <<>>]

\* sub_agents holds references to the two objects above, named by their name
coordinator ==
    [name |-> "coordinator",
     description |-> "I coordinate greetings and tasks.",
     tools |-> <<>>,
     sub_agents |-> <<"greeter", "task_executor">>]

\* the dict literal, in insertion order
AgentsDict ==
    << [key |-> "greeter", agent |-> greeter],
       [key |-> "task_executor", agent |-> task_executor],
       [key |-> "coordinator", agent |-> coordinator] >>

\* list(d.keys())
Keys(d) == [i \in 1..Len(d) |-> d[i].key]

\* `k in d`
HasKey(d, k) == \E i \in 1..Len(d) : d[i].key = k

\* a lookup that ignores the key
LookupFirst(d, k) == d[1].agent

\* d[k]
Lookup(d, k) == d[CHOOSE i \in 1..Len(d) : d[i].key = k].agent

\* the object a reference held in sub_agents points to
Deref(d, ref) == d[CHOOSE i \in 1..Len(d) : d[i].agent.name = ref].agent

-----------------------------------------------------------------------------
(* Keyword lists of _get_simulated_response *)

GreeterWords == <<"hello", "hi", "hey", "greet">>
TimeWordsNoWhen == <<"time", "clock">>
TimeWords == <<"time", "clock", "when">>
TaskWordsNoPerform == <<"task", "do", "execute", "run">>
TaskWords == <<"task", "do", "execute", "perform", "run">>
CoordinatorGreetWordsNoHello == <<"greet">>
CoordinatorGreetWords == <<"greet", "hello">>
CoordinatorTaskWords == <<"task", "time", "execute", "perform">>

GreeterWelcome(self) ==
    "Hello! Welcome! I'm " \o self.name
        \o " and I'm here to make you feel welcome. How can I assist you today?"

GreeterGeneric(self) == "Greetings! I'm " \o self.name \o ". " \o self.description

ExecutorFallback(self) ==
    "I'm " \o self.name
        \o ". I can help you execute tasks and get the current time. What would you like me to do?"

CoordinatorFallback ==
    "I'm the coordinator. I can route your requests to specialized agents: greeter for welcomes, task_executor for tasks and time. What do you need?"

RouteGreeterPrefix == "[Coordinator] Routing to greeter: "
RouteExecutorPrefix == "[Coordinator] Routing to task executor: "

\* query.replace("perform", "").replace("task", "").replace("execute", "").strip()
\* a chain that forgets .replace("task", "")
StripTaskKeepsTask(q) == Strip(Remove(Remove(q, "perform"), "execute"))

StripTask(q) == Strip(Remove(Remove(Remove(q, "perform"), "task"), "execute"))

\* the chain without the `if not task` default
TaskNameNoDefault(q) == StripTask(q)

\* `if not task: task = "general task"`

TaskName(q) == IF StripTask(q) = "" THEN "general task" ELSE StripTask(q)

-----------------------------------------------------------------------------
(* SimpleAgent.run_live and what it calls.  A call returns
   [raised, text, calls, trace]: whether an exception escaped, the returned
   string (or the exception's message), the number of outbound calls made,
   and the agents whose run_live ran, in call order.  env carries what the
   call reads: the two globals, the registry, the clock, and the outcome of
   the completion service should it be called. *)

Return(text, calls, trace) ==
    [raised |-> FALSE, text |-> text, calls |-> calls, trace |-> trace]

Raise(msg, calls, trace) ==
    [raised |-> TRUE, text |-> msg, calls |-> calls, trace |-> trace]

\* outcomes of openai_client.chat.completions.create(...)
SvcText(s) == [kind |-> "text", s |-> s]     \* choices[0].message.content = s
SvcError(m) == [kind |-> "error", s |-> m]   \* the call raises, str(e) = m
SvcNoContent == [kind |-> "none", s |-> ""]  \* content is None

ServiceOutcomes == { SvcText("  Hi! \n"), SvcError("Connection error."), SvcNoContent }

ApiErrorPrefix == "OpenAI API Error: "

\* a try block whose except clause re-raises
get_openai_response_reraise(self, query, env) ==
    CASE env.svc.kind = "text" -> Return(Strip(env.svc.s), 1, <<self.name>>)
      [] env.svc.kind = "error" -> Raise(env.svc.s, 1, <<self.name>>)
      [] OTHER ->
            Raise("'NoneType' object has no attribute 'strip'", 1, <<self.name>>)

get_openai_response(self, query, env) ==
    CASE env.svc.kind = "text" -> Return(Strip(env.svc.s), 1, <<self.name>>)
      [] env.svc.kind = "error" ->
            Return(ApiErrorPrefix \o env.svc.s, 1, <<self.name>>)
      [] OTHER ->
            Return(ApiErrorPrefix \o "'NoneType' object has no attribute 'strip'",
                   1, <<self.name>>)

\* a child's result seen from the coordinator branch that called it
Wrap(prefix, self, child) ==
    IF child.raised
    THEN Raise(child.text, child.calls, <<self.name>> \o child.trace)
    ELSE Return(prefix \o child.text, child.calls, <<self.name>> \o child.trace)

RECURSIVE run_live(_, _, _)
RECURSIVE get_simulated_response(_, _, _)

get_simulated_response(self, query, env) ==
    IF query.t # "str"
    THEN Raise("'" \o query.t \o "' object has no attribute 'lower'", 0, <<self.name>>)
    ELSE
    LET q == query.s
        query_lower == Lower(q)
    IN  CASE self.name = "greeter" ->
                IF AnyIn(GreeterWords, query_lower)
                THEN Return(GreeterWelcome(self), 0, <<self.name>>)
                ELSE Return(GreeterGeneric(self), 0, <<self.name>>)
          [] self.name = "task_executor" ->
                IF AnyIn(TimeWords, query_lower)
                THEN Return(get_current_time(env.now), 0, <<self.name>>)
                ELSE IF AnyIn(TaskWords, query_lower)
                THEN Return(perform_task(TaskName(q), env.now), 0, <<self.name>>)
                ELSE Return(ExecutorFallback(self), 0, <<self.name>>)
          [] self.name = "coordinator" ->
                IF AnyIn(CoordinatorGreetWords, query_lower)
                THEN IF Len(self.sub_agents) > 0
                     THEN Wrap(RouteGreeterPrefix, self,
                               run_live(Deref(env.agents, self.sub_agents[1]), query, env))
                     ELSE Return(RouteGreeterPrefix \o "Hello from coordinator!",
                                 0, <<self.name>>)
                ELSE IF AnyIn(CoordinatorTaskWords, query_lower)
                THEN IF Len(self.sub_agents) > 1
                     THEN Wrap(RouteExecutorPrefix, self,
                               run_live(Deref(env.agents, self.sub_agents[2]), query, env))
                     ELSE Return(RouteExecutorPrefix \o perform_task(q, env.now),
                                 0, <<self.name>>)
                ELSE Return(CoordinatorFallback, 0, <<self.name>>)
          [] OTHER ->
                Return("I'm " \o self.name \o ". " \o self.description, 0, <<self.name>>)

run_live(self, query, env) ==
    IF env.USE_OPENAI /\ env.openai_client = "client"
    THEN get_openai_response(self, query, env)
    ELSE get_simulated_response(self, query, env)

-----------------------------------------------------------------------------
(* Inputs *)

\* request ids: one per worker thread serving a request at the same time
Requests == {"r1", "r2"}

\* the "agent" values clients send
AgentInputs ==
    { Absent, JStr("greeter"), JStr("task_executor"), JStr("coordinator"),
      JStr("unknown"), JList(1) }

\* the "query" values clients send
QueryInputs ==
    { Absent, JStr(""), JNum(7), JStr("Hello there"), JStr("perform task") }

NoBody == [t |-> "none", agent |-> Absent, query |-> Absent, extra |-> FALSE, n |-> 0]

\* a JSON object; extra: it holds keys other than agent and query
ObjBody(a, q, x) == [t |-> "obj", agent |-> a, query |-> q, extra |-> x, n |-> 0]

\* a JSON array of n elements sent as the body
ListBody(n) == [t |-> "list", agent |-> Absent, query |-> Absent, extra |-> FALSE, n |-> n]

Bodies ==
    { NoBody, ListBody(0), ListBody(1), ObjBody(Absent, Absent, TRUE) }
        \cup { ObjBody(a, q, FALSE) : a \in AgentInputs, q \in QueryInputs }

\* `not data`
BodyTruthy(b) ==
    CASE b.t = "none" -> FALSE
      [] b.t = "list" -> b.n > 0
      [] OTHER -> b.agent # Absent \/ b.query # Absent \/ b.extra

\* data.get(key, default)
Get(v, default) == IF v = Absent THEN default ELSE v

\* `agent_name in agents`, for a hashable agent_name
InAgents(d, v) == v.t = "str" /\ HasKey(d, v.s)

Midnight == [year |-> 2026, month |-> 11, day |-> 5, secs |-> 0]
Evening == [year |-> 1999, month |-> 12, day |-> 31, secs |-> 86397]
Noonish == [year |-> 2026, month |-> 11, day |-> 5, secs |-> 45296]

\* clock readings at process start
ClockStarts == { Noonish, Evening }

\* texts direct calls are made of
Fragments ==
    { "Hello", "greet", "hi", "task", "perform", "EXECUTE", "time", "when",
      "do", "run", " ", "ta", "sk", "x" }

ExampleQueries ==
    { "Hello there", "run my task", "what's up", "please perform task cleanup",
      "perform task", "what time is it", "hi", "Perform Task", "hey clock",
      "taperformsk", "pertaskform", "\tEXECUTE task \n" }

RECURSIVE Concats(_)
Concats(n) ==
    IF n = 0 THEN {""}
    ELSE {""} \cup { f \o rest : f \in Fragments, rest \in Concats(n - 1) }

ProbeQueries == ExampleQueries \cup (Concats(MaxFrags) \ {""})

AgentNames == { AgentsDict[i].key : i \in 1..Len(AgentsDict) }

-----------------------------------------------------------------------------
(* State *)

NoResult == Return("", 0, <<>>)

IdleReq ==
    [pc |-> "idle", route |-> "-", body |-> NoBody, agent_name |-> Absent,
     query |-> Absent, result |-> NoResult, ran_at |-> Midnight,
     svc |-> SvcNoContent, status |-> 0, payload |-> [none |-> TRUE]]

IdleProbe ==
    [pc |-> "idle", agent |-> "greeter", query |-> JStr(""), at |-> Midnight,
     result |-> NoResult]

Env(svc) ==
    [USE_OPENAI |-> USE_OPENAI, openai_client |-> openai_client,
     agents |-> agents, now |-> clock, svc |-> svc]

\* app.py 10-22: the import-time decision, then the module body
Init ==
    /\ \E key_set \in BOOLEAN, import_ok \in BOOLEAN :
          /\ USE_OPENAI = (key_set /\ import_ok)
          /\ openai_client =
                IF ~key_set THEN "None"
                ELSE IF import_ok THEN "client" ELSE "undefined"
    /\ agents = AgentsDict
    /\ clock \in ClockStarts
    /\ ticks = 0
    /\ reqs = [r \in Requests |-> IdleReq]
    /\ probe = IdleProbe

\* a second passes
Tick ==
    /\ ticks < MaxTicks
    /\ clock.secs < 86399
    /\ ticks' = ticks + 1
    /\ clock' = [clock EXCEPT !.secs = @ + 1]
    /\ UNCHANGED <<USE_OPENAI, openai_client, agents, reqs, probe>>

Finish(r, route, status, payload) ==
    reqs' = [reqs EXCEPT ![r] =
                [@ EXCEPT !.pc = "done", !.route = route, !.status = status,
                          !.payload = payload]]

\* GET /
home(r) ==
    /\ reqs[r].pc = "idle"
    /\ Finish(r, "/", 200,
              [status |-> "active", message |-> "Simple Agent API is running",
               available_agents |-> Keys(agents), openai_enabled |-> USE_OPENAI,
               endpoints |-> <<"GET /", "POST /ask">>,
               example_request |->
                   [agent |-> "coordinator", query |-> "Hello, can you help me?"]])
    /\ UNCHANGED <<USE_OPENAI, openai_client, agents, clock, ticks, probe>>

\* a handler that empties the sub_agents list it inspects
list_agents_mutating(r) ==
    /\ reqs[r].pc = "idle"
    /\ Finish(r, "/agents", 200, [agents |-> <<>>, total_agents |-> Len(agents)])
    /\ agents' = [i \in 1..Len(agents) |->
                    [agents[i] EXCEPT !.agent.sub_agents = <<>>]]
    /\ UNCHANGED <<USE_OPENAI, openai_client, clock, ticks, probe>>

\* GET /agents
list_agents(r) ==
    /\ reqs[r].pc = "idle"
    /\ Finish(r, "/agents", 200,
              [agents |-> [i \in 1..Len(agents) |->
                              [name |-> agents[i].key,
                               description |-> agents[i].agent.description,
                               tools |-> agents[i].agent.tools,
                               has_sub_agents |-> Len(agents[i].agent.sub_agents) > 0]],
               total_agents |-> Len(agents)])
    /\ UNCHANGED <<USE_OPENAI, openai_client, agents, clock, ticks, probe>>

\* the checks with the agent lookup ahead of the query check
ValidateAgentFirst(d, data) ==
    IF ~BodyTruthy(data)
    THEN [next |-> "done", status |-> 400, payload |-> [error |-> "No data provided"]]
    ELSE IF data.t # "obj"
    THEN [next |-> "done", status |-> 500,
          payload |-> [unhandled |-> "'list' object has no attribute 'get'"]]
    ELSE
    LET agent_name == Get(data.agent, JStr("coordinator"))
        query == Get(data.query, JNull)
    IN  IF ~Hashable(agent_name)
        THEN [next |-> "done", status |-> 500,
              payload |-> [unhandled |-> "unhashable type: 'list'"]]
        ELSE IF ~InAgents(d, agent_name)
        THEN [next |-> "done", status |-> 404,
              payload |-> [error |-> "Agent '" \o PyStr(agent_name) \o "' not found",
                           available_agents |-> Keys(d)]]
        ELSE IF ~Truthy(query)
        THEN [next |-> "done", status |-> 400,
              payload |-> [error |-> "No query provided"]]
        ELSE [next |-> "validated", status |-> 0, payload |-> [none |-> TRUE]]

\* what lines 156-171 of ask decide for a body: the response it returns, the
\* exception that escapes it, or that the request goes on to run_live
Validate(d, data) ==
    IF ~BodyTruthy(data)
    THEN [next |-> "done", status |-> 400, payload |-> [error |-> "No data provided"]]
    ELSE IF data.t # "obj"
    THEN [next |-> "done", status |-> 500,
          payload |-> [unhandled |-> "'list' object has no attribute 'get'"]]
    ELSE
    LET agent_name == Get(data.agent, JStr("coordinator"))
        query == Get(data.query, JNull)
    IN  IF ~Truthy(query)
        THEN [next |-> "done", status |-> 400,
              payload |-> [error |-> "No query provided"]]
        ELSE IF ~Hashable(agent_name)
        THEN [next |-> "done", status |-> 500,
              payload |-> [unhandled |-> "unhashable type: 'list'"]]
        ELSE IF ~InAgents(d, agent_name)
        THEN [next |-> "done", status |-> 404,
              payload |-> [error |-> "Agent '" \o PyStr(agent_name) \o "' not found",
                           available_agents |-> Keys(d)]]
        ELSE [next |-> "validated", status |-> 0, payload |-> [none |-> TRUE]]

\* POST /ask, lines 156-171
ask_validate(r) ==
    /\ reqs[r].pc = "idle"
    /\ \E data \in Bodies :
          LET v == Validate(agents, data) IN
          reqs' = [reqs EXCEPT ![r] =
                      [@ EXCEPT !.pc = v.next, !.route = "/ask", !.body = data,
                                !.agent_name =
                                    IF BodyTruthy(data) /\ data.t = "obj"
                                    THEN Get(data.agent, JStr("coordinator")) ELSE @,
                                !.query =
                                    IF BodyTruthy(data) /\ data.t = "obj"
                                    THEN Get(data.query, JNull) ELSE @,
                                !.status = v.status, !.payload = v.payload]]
    /\ UNCHANGED <<USE_OPENAI, openai_client, agents, clock, ticks, probe>>

\* POST /ask, lines 173-175 and the except clause 185-186
ask_run_live(r) ==
    /\ reqs[r].pc = "validated"
    /\ \E svc \in ServiceOutcomes :
          LET res == run_live(Lookup(agents, reqs[r].agent_name.s), reqs[r].query,
                              Env(svc))
          IN  reqs' = [reqs EXCEPT ![r] =
                  [@ EXCEPT !.result = res, !.ran_at = clock,
                            !.svc = IF res.calls > 0 THEN svc ELSE @,
                            !.pc = IF res.raised THEN "done" ELSE "ran",
                            !.status = IF res.raised THEN 500 ELSE 0,
                            !.payload = IF res.raised THEN [error |-> res.text]
                                        ELSE @]]
    /\ UNCHANGED <<USE_OPENAI, openai_client, agents, clock, ticks, probe>>

\* POST /ask, lines 177-183
ask_respond(r) ==
    /\ reqs[r].pc = "ran"
    /\ Finish(r, "/ask", 200,
              [agent |-> reqs[r].agent_name, query |-> reqs[r].query,
               response |-> reqs[r].result.text, timestamp |-> IsoFormat(clock),
               openai_used |-> USE_OPENAI])
    /\ UNCHANGED <<USE_OPENAI, openai_client, agents, clock, ticks, probe>>

\* the response is sent and the worker takes the next request
Close(r) ==
    /\ reqs[r].pc = "done"
    /\ reqs' = [reqs EXCEPT ![r] = IdleReq]
    /\ UNCHANGED <<USE_OPENAI, openai_client, agents, clock, ticks, probe>>

Next ==
    \/ Tick
    \/ \E r \in Requests : home(r)
    \/ \E r \in Requests : list_agents(r)
    \/ \E r \in Requests : ask_validate(r)
    \/ \E r \in Requests : ask_run_live(r)
    \/ \E r \in Requests : ask_respond(r)
    \/ \E r \in Requests : Close(r)

Spec == Init /\ [][Next]_vars

-----------------------------------------------------------------------------
(* Direct calls of run_live in simulated mode, as a unit test makes them *)

PolicyInit ==
    /\ USE_OPENAI = FALSE
    /\ openai_client = "None"
    /\ agents = AgentsDict
    /\ clock \in ClockStarts
    /\ ticks = 0
    /\ reqs = [r \in Requests |-> IdleReq]
    /\ \E a \in AgentNames, q \in ProbeQueries :
          probe = [IdleProbe EXCEPT !.pc = "ready", !.agent = a, !.query = JStr(q)]

\* agents[name].run_live(query)
Resolve ==
    /\ probe.pc = "ready"
    /\ probe' = [probe EXCEPT
                    !.pc = "done", !.at = clock,
                    !.result = run_live(Lookup(agents, probe.agent), probe.query,
                                        Env(SvcNoContent))]
    /\ UNCHANGED <<USE_OPENAI, openai_client, agents, clock, ticks, reqs>>

PolicyNext == Tick \/ Resolve

PolicySpec == PolicyInit /\ [][PolicyNext]_vars

-----------------------------------------------------------------------------
(* Properties of direct calls (PolicySpec) *)

ProbeDone(a) == probe.pc = "done" /\ probe.agent = a

ProbeQ == probe.query.s
ProbeQL == Lower(probe.query.s)
ProbeText == probe.result.text

\* text with a leading prefix removed
After(text, prefix) == SubSeq(text, Len(prefix) + 1, Len(text))

IsDigit(c) == \E d \in 0..9 : Digit(d) = c
DigitVal(c) == CHOOSE d \in 0..9 : Digit(d) = c
TwoDigits(s, i) == 10 * DigitVal(CharAt(s, i)) + DigitVal(CharAt(s, i + 1))

\* s reads HH:MM:SS
IsHMS(s) ==
    /\ Len(s) = 8
    /\ \A i \in {1, 2, 4, 5, 7, 8} : IsDigit(CharAt(s, i))
    /\ CharAt(s, 3) = ":" /\ CharAt(s, 6) = ":"

\* s reads YYYY-MM-DD HH:MM:SS
IsYMDHMS(s) ==
    /\ Len(s) = 19
    /\ \A i \in {1, 2, 3, 4, 6, 7, 9, 10} : IsDigit(CharAt(s, i))
    /\ CharAt(s, 5) = "-" /\ CharAt(s, 8) = "-" /\ CharAt(s, 11) = " "
    /\ IsHMS(SubSeq(s, 12, 19))

\* the seconds of the day an HH:MM:SS text names
SecsOf(s) == 3600 * TwoDigits(s, 1) + 60 * TwoDigits(s, 4) + TwoDigits(s, 7)

TaskPrefix == "Task completed: "
TaskMiddle == ". Status: Success at "

\* text reads "Task completed: <name>. Status: Success at HH:MM:SS"
IsTaskReply(text) ==
    /\ StartsWith(text, TaskPrefix)
    /\ Len(text) >= Len(TaskPrefix) + Len(TaskMiddle) + 8
    /\ IsHMS(SubSeq(text, Len(text) - 7, Len(text)))
    /\ SubSeq(text, Len(text) - 7 - Len(TaskMiddle), Len(text) - 8) = TaskMiddle

\* the <name> of such a text
ReportedTask(text) ==
    SubSeq(text, Len(TaskPrefix) + 1, Len(text) - 8 - Len(TaskMiddle))

IsTimeReport(text) ==
    /\ StartsWith(text, "The current time is ")
    /\ IsYMDHMS(After(text, "The current time is "))

HasGreetWord(ql) == Contains(ql, "greet") \/ Contains(ql, "hello")
HasRouteTaskWord(ql) ==
    Contains(ql, "task") \/ Contains(ql, "time") \/ Contains(ql, "execute")
        \/ Contains(ql, "perform")
HasTimeWord(ql) == Contains(ql, "time") \/ Contains(ql, "clock") \/ Contains(ql, "when")
HasTaskWord(ql) ==
    Contains(ql, "task") \/ Contains(ql, "do") \/ Contains(ql, "execute")
        \/ Contains(ql, "perform") \/ Contains(ql, "run")

\* what a direct call of a child answers to the probed query at the probe's time
ChildReply(name) ==
    run_live(Lookup(agents, name), probe.query,
             [Env(SvcNoContent) EXCEPT !.now = probe.at]).text

\* C3: in simulated mode the coordinator decides on the lowercased query with
\* strict precedence: "greet"/"hello" -> greeter prefix followed by the
\* greeter's reply (even with task keywords present); else
\* "task"/"time"/"execute"/"perform" -> task-executor prefix followed by the
\* task executor's reply; else the fixed capability description, unprefixed.
\* "Hello there", "run my task" and "what's up" take the three branches.
C3_CoordinatorPrecedence ==
    ProbeDone("coordinator") =>
        /\ ~probe.result.raised
        /\ IF HasGreetWord(ProbeQL)
           THEN /\ StartsWith(ProbeText, "[Coordinator] Routing to greeter: ")
                /\ After(ProbeText, "[Coordinator] Routing to greeter: ")
                      = ChildReply("greeter")
                /\ probe.result.trace = <<"coordinator", "greeter">>
           ELSE IF HasRouteTaskWord(ProbeQL)
           THEN /\ StartsWith(ProbeText, "[Coordinator] Routing to task executor: ")
                /\ After(ProbeText, "[Coordinator] Routing to task executor: ")
                      = ChildReply("task_executor")
                /\ probe.result.trace = <<"coordinator", "task_executor">>
           ELSE /\ ProbeText = CoordinatorFallback
                /\ ~StartsWith(ProbeText, "[Coordinator]")
                /\ probe.result.trace = <<"coordinator">>
        /\ ProbeQ = "Hello there"
              => StartsWith(ProbeText, "[Coordinator] Routing to greeter: ")
        /\ ProbeQ = "run my task"
              => StartsWith(ProbeText, "[Coordinator] Routing to task executor: ")
        /\ ProbeQ = "what's up"
              => StartsWith(ProbeText, "I'm the coordinator. I can route your requests")

\* a query with a greeting word and a task word was routed to the greeter
C3_Witness ==
    /\ ProbeDone("coordinator")
    /\ ProbeQ = "Hellotask"
    /\ StartsWith(ProbeText, "[Coordinator] Routing to greeter: Hello! Welcome!")

\* C4 as stated: task_executor's reply to "please perform task cleanup" is
\* "Task completed: cleanup. Status: Success at HH:MM:SS".
C4_Original ==
    (ProbeDone("task_executor") /\ ProbeQ = "please perform task cleanup") =>
        /\ IsTaskReply(ProbeText)
        /\ ReportedTask(ProbeText) = "cleanup"

\* C4 amended: the reply to "please perform task cleanup" is
\* "Task completed: please   cleanup. Status: Success at HH:MM:SS": stripping
\* "perform", "task", "execute" and trimming leaves "please", three spaces and
\* "cleanup".
C4_PleaseCleanup ==
    (ProbeDone("task_executor") /\ ProbeQ = "please perform task cleanup") =>
        /\ IsTaskReply(ProbeText)
        /\ ReportedTask(ProbeText) = "please   cleanup"
        /\ SecsOf(SubSeq(ProbeText, Len(ProbeText) - 7, Len(ProbeText))) = probe.at.secs

C4_Witness ==
    /\ ProbeDone("task_executor")
    /\ ProbeQ = "please perform task cleanup"
    /\ StartsWith(ProbeText, "Task completed: ")

\* C5: in simulated mode, whenever task_executor takes the task branch the
\* task name it reports is not empty; it is "general task" when removing
\* "perform", "task", "execute" from the original query and trimming leaves
\* nothing, as for "perform task".
C5_TaskNameNeverEmpty ==
    (ProbeDone("task_executor") /\ ~HasTimeWord(ProbeQL) /\ HasTaskWord(ProbeQL)) =>
        /\ IsTaskReply(ProbeText)
        /\ ReportedTask(ProbeText) # ""
        /\ Strip(Remove(Remove(Remove(ProbeQ, "perform"), "task"), "execute")) = ""
              => ReportedTask(ProbeText) = "general task"
        /\ ProbeQ = "perform task" => ReportedTask(ProbeText) = "general task"

C5_Witness ==
    /\ ProbeDone("task_executor")
    /\ ProbeQ = "perform task"
    /\ StartsWith(ProbeText, "Task completed: general task. Status: Success at ")

\* C9: in simulated mode task_executor takes exactly one branch, decided on
\* the lowercased query: a time word ("time", "clock", "when") gives the time
\* report "The current time is YYYY-MM-DD HH:MM:SS" even with a task word
\* present; else a task word ("task", "do", "execute", "perform", "run", any
\* case) gives a "Task completed: ..." reply whose task name is cut from the
\* original, case-preserved query; else the fallback naming the agent.
C9_ExecutorPrecedence ==
    ProbeDone("task_executor") =>
        /\ ~probe.result.raised
        /\ probe.result.trace = <<"task_executor">>
        /\ IF HasTimeWord(ProbeQL)
           THEN /\ IsTimeReport(ProbeText)
                /\ SecsOf(SubSeq(ProbeText, Len(ProbeText) - 7, Len(ProbeText)))
                      = probe.at.secs
                /\ ~StartsWith(ProbeText, TaskPrefix)
           ELSE IF HasTaskWord(ProbeQL)
           THEN /\ IsTaskReply(ProbeText)
                /\ LET kept == Strip(Remove(Remove(Remove(ProbeQ, "perform"), "task"),
                                            "execute"))
                   IN  kept # "" => ReportedTask(ProbeText) = kept
                /\ ~IsTimeReport(ProbeText)
           ELSE /\ ProbeText = "I'm task_executor. I can help you execute tasks and get the current time. What would you like me to do?"
        /\ ProbeQ = "Perform Task" => ReportedTask(ProbeText) = "Perform Task"

\* a query with a time word and an upper-case task word got the time report
C9_Witness ==
    /\ ProbeDone("task_executor")
    /\ ProbeQ = "EXECUTEwhen"
    /\ IsTimeReport(ProbeText)

\* C10: in simulated mode a coordinator call delegates at most one level, and
\* the delegated child never answers with its own fallback: a greeter
\* delegation wraps the welcome message ("Hello! Welcome!", never
\* "Greetings!"), a task-executor delegation wraps the time report or a
\* "Task completed: ..." reply.
C10_DelegationNeverFallsBack ==
    ProbeDone("coordinator") =>
        /\ Len(probe.result.trace) <= 2
        /\ \A i \in 2..Len(probe.result.trace) : probe.result.trace[i] # "coordinator"
        /\ StartsWith(ProbeText, RouteGreeterPrefix) =>
              /\ StartsWith(After(ProbeText, RouteGreeterPrefix), "Hello! Welcome!")
              /\ ~Contains(ProbeText, "Greetings!")
        /\ StartsWith(ProbeText, RouteExecutorPrefix) =>
              /\ \/ IsTimeReport(After(ProbeText, RouteExecutorPrefix))
                 \/ IsTaskReply(After(ProbeText, RouteExecutorPrefix))
              /\ ~Contains(ProbeText, "I can help you execute tasks")

\* the coordinator delegated to the task executor, which performed a task
C10_Witness ==
    /\ ProbeDone("coordinator")
    /\ probe.result.trace = <<"coordinator", "task_executor">>
    /\ IsTaskReply(After(ProbeText, RouteExecutorPrefix))

-----------------------------------------------------------------------------
(* Properties of the HTTP handlers (Spec) *)

AskDone(r) == reqs[r].pc = "done" /\ reqs[r].route = "/ask"

\* no agent's run_live was invoked for the request
NotRun(r) == reqs[r].result.trace = <<>> /\ reqs[r].result.calls = 0

RegisteredNames == {"greeter", "task_executor", "coordinator"}

EmptyBody(b) ==
    \/ b.t = "none"
    \/ b.t = "list" /\ b.n = 0
    \/ b.t = "obj" /\ b.agent = Absent /\ b.query = Absent /\ ~b.extra

NoQuery(b) == b.query = Absent \/ b.query = JStr("")

\* the body passes the three checks of ask
ValidBody(b) ==
    /\ b.t = "obj"
    /\ ~NoQuery(b)
    /\ b.agent = Absent \/ (b.agent.t = "str" /\ b.agent.s \in RegisteredNames)

\* C1: POST /ask answers by the first failing check, in the order body, query,
\* agent: no or empty body -> 400; no query (absent or empty) -> 400 whatever
\* the agent field holds; a query and an agent name outside the registry ->
\* 404 listing exactly greeter, task_executor, coordinator.  run_live is
\* invoked in none of the three cases.
C1_FirstFailingCheck ==
    \A r \in Requests : AskDone(r) =>
        LET b == reqs[r].body IN
        /\ EmptyBody(b) => reqs[r].status = 400 /\ NotRun(r)
        /\ (b.t = "obj" /\ ~EmptyBody(b) /\ NoQuery(b)) =>
              /\ reqs[r].status = 400
              /\ reqs[r].payload.error = "No query provided"
              /\ NotRun(r)
        /\ (b.t = "obj" /\ ~NoQuery(b) /\ b.agent.t = "str"
                /\ b.agent.s \notin RegisteredNames) =>
              /\ reqs[r].status = 404
              /\ Len(reqs[r].payload.available_agents) = 3
              /\ { reqs[r].payload.available_agents[i] : i \in 1..3 } = RegisteredNames
              /\ NotRun(r)

\* one request was refused for its query although its agent is unknown, the
\* other for its unknown agent
C1_Witness ==
    /\ AskDone("r1") /\ reqs["r1"].status = 400
    /\ reqs["r1"].body.agent = JStr("unknown") /\ reqs["r1"].body.query = JStr("")
    /\ AskDone("r2") /\ reqs["r2"].status = 404
    /\ reqs["r2"].body.agent = JStr("unknown")

\* C2: a POST /ask request that passes validation invokes run_live of exactly
\* the agent it names ("coordinator" when the field is omitted), and its 200
\* payload carries that name, the query unchanged, that call's reply, and
\* openai_used equal to the process-wide USE_OPENAI.
C2_SuccessPayload ==
    \A r \in Requests : (AskDone(r) /\ ValidBody(reqs[r].body)) =>
        LET b == reqs[r].body
            name == IF b.agent = Absent THEN "coordinator" ELSE b.agent.s
        IN  /\ reqs[r].status \in {200, 500}
            /\ reqs[r].status = 200 <=> ~reqs[r].result.raised
            /\ Len(reqs[r].result.trace) >= 1 /\ reqs[r].result.trace[1] = name
            /\ reqs[r].status = 200 =>
                  /\ reqs[r].payload.agent = JStr(name)
                  /\ reqs[r].payload.query = b.query
                  /\ reqs[r].payload.response = reqs[r].result.text
                  /\ reqs[r].payload.openai_used = USE_OPENAI
                  /\ (~USE_OPENAI /\ name = "greeter" /\ b.query = JStr("Hello there"))
                        => StartsWith(reqs[r].payload.response, "Hello! Welcome!")

\* a request that omitted the agent field was answered by the coordinator
C2_Witness ==
    \E r \in Requests :
        /\ AskDone(r) /\ reqs[r].status = 200
        /\ reqs[r].body.agent = Absent
        /\ reqs[r].payload.agent = JStr("coordinator")
        /\ reqs[r].result.trace[1] = "coordinator"

\* C6: run_live never raises to its caller: in both modes, for every registry
\* agent and every query the handler passes on after validation, it returns a
\* string, so the handler's 500 branch is not reached through run_live.
C6_RunLiveNeverRaises ==
    \A r \in Requests :
        /\ ~reqs[r].result.raised
        /\ (AskDone(r) /\ ValidBody(reqs[r].body)) => reqs[r].status # 500

\* str(e) of the failure of the outbound call
FailureMessage(svc) ==
    IF svc.kind = "error" THEN svc.s ELSE "'NoneType' object has no attribute 'strip'"

\* C7: with the completion service enabled, a validated request whose outbound
\* call fails (the call raises, or the response is malformed) ends with status
\* 200 and response "OpenAI API Error: {message}"; never a 500, never more
\* than one outbound call, never a simulated reply.
C7_ServiceFailureIs200 ==
    \A r \in Requests :
        /\ reqs[r].result.calls <= 1
        /\ (USE_OPENAI /\ reqs[r].pc \in {"ran", "done"} /\ ValidBody(reqs[r].body)
                /\ reqs[r].route = "/ask") =>
              /\ reqs[r].result.calls = 1
              /\ reqs[r].svc.kind # "text" =>
                    /\ ~reqs[r].result.raised
                    /\ reqs[r].pc = "ran"
                          => ENABLED ask_respond(r)
                    /\ reqs[r].result.text
                          = "OpenAI API Error: " \o FailureMessage(reqs[r].svc)
                    /\ Len(reqs[r].result.trace) = 1
                    /\ reqs[r].pc = "done" =>
                          /\ reqs[r].status = 200
                          /\ reqs[r].payload.response = reqs[r].result.text

\* a request whose outbound call raised was answered with 200
C7_Witness ==
    \E r \in Requests :
        /\ USE_OPENAI /\ AskDone(r)
        /\ reqs[r].svc = SvcError("Connection error.")
        /\ reqs[r].status = 200
        /\ reqs[r].payload.response = "OpenAI API Error: Connection error."

\* run_live ran for the request
HasRun(r) == reqs[r].result.trace # <<>>

====
